---- MODULE Spec2Model ----
(***************************************************************************)
(* big-A/selectStockDividendData.py as a state machine.                    *)
(*                                                                         *)
(* The program fetches the A-share identifier table, the dividend history  *)
(* of every stock and a snapshot of latest prices from a market-data       *)
(* provider (akshare), collects the dividend histories into a workbook     *)
(* (getStockDividendData) and screens the stocks whose latest cash         *)
(* dividend is recent and yields at least 3% (getHighDividend).            *)
(*                                                                         *)
(* Prices, ratios and yields are Python floats: IEEE-754 binary64 values,  *)
(* modelled exactly (53-bit mantissa, round to nearest even) on limbs of   *)
(* 15 bits.                                                                *)
(***************************************************************************)
EXTENDS Integers, Sequences, FiniteSets, TLC

\* ------------------------------------------------------------------ bounds
\* identifiers in the provider's table, in the screening specification
MaxStocks == 2
\* identifiers in the provider's table, in the data-collection specification
MaxListed == 3
\* dividend records the provider returns for one stock
MaxRecs == 2
\* identifiers beyond the first pacing period, in the pacing specification
PaceExtra == 2

\* ------------------------------------------------- binary64 arithmetic
LimbBits == 15
Base == 32768
MantBits == 53
GuardLimbs == 4

RECURSIVE Pow2(_)
Pow2(n) == IF n = 0 THEN 1 ELSE 2 * Pow2(n - 1)

\* naturals of any size: little-endian sequences of limbs, no leading zero
RECURSIVE BigNorm(_)
BigNorm(a) ==
    IF Len(a) = 0 THEN a
    ELSE IF a[Len(a)] = 0 THEN BigNorm(SubSeq(a, 1, Len(a) - 1)) ELSE a

RECURSIVE BigOfInt(_)
BigOfInt(n) == IF n = 0 THEN << >> ELSE <<n % Base>> \o BigOfInt(n \div Base)

Limb(a, k) == IF k <= Len(a) THEN a[k] ELSE 0

RECURSIVE BigCmpFrom(_, _, _)
BigCmpFrom(a, b, k) ==
    IF k = 0 THEN 0
    ELSE IF Limb(a, k) > Limb(b, k) THEN 1
    ELSE IF Limb(a, k) < Limb(b, k) THEN -1
    ELSE BigCmpFrom(a, b, k - 1)

BigCmp(a, b) == BigCmpFrom(a, b, IF Len(a) > Len(b) THEN Len(a) ELSE Len(b))

RECURSIVE BigAddFrom(_, _, _, _)
BigAddFrom(a, b, k, carry) ==
    IF k > Len(a) /\ k > Len(b)
    THEN IF carry = 0 THEN << >> ELSE <<carry>>
    ELSE LET s == Limb(a, k) + Limb(b, k) + carry
         IN  <<s % Base>> \o BigAddFrom(a, b, k + 1, s \div Base)

BigAdd(a, b) == BigAddFrom(a, b, 1, 0)

RECURSIVE BigSubFrom(_, _, _, _)
BigSubFrom(a, b, k, borrow) ==
    IF k > Len(a) THEN << >>
    ELSE LET d == Limb(a, k) - Limb(b, k) - borrow
         IN  IF d < 0 THEN <<d + Base>> \o BigSubFrom(a, b, k + 1, 1)
                      ELSE <<d>> \o BigSubFrom(a, b, k + 1, 0)

\* a - b, for a >= b
BigSub(a, b) == BigNorm(BigSubFrom(a, b, 1, 0))

RECURSIVE BigMulFrom(_, _, _, _)
BigMulFrom(a, n, k, carry) ==
    IF k > Len(a)
    THEN IF carry = 0 THEN << >> ELSE <<carry>>
    ELSE LET p == a[k] * n + carry
         IN  <<p % Base>> \o BigMulFrom(a, n, k + 1, p \div Base)

\* a * n, for 0 <= n < Base
BigMulSmall(a, n) == BigNorm(BigMulFrom(a, n, 1, 0))

RECURSIVE BitLenInt(_)
BitLenInt(n) == IF n = 0 THEN 0 ELSE 1 + BitLenInt(n \div 2)

BigBitLen(a) == IF Len(a) = 0 THEN 0 ELSE (Len(a) - 1) * LimbBits + BitLenInt(a[Len(a)])

BigShl(a, s) ==
    IF Len(a) = 0 THEN a
    ELSE [k \in 1..(s \div LimbBits) |-> 0] \o BigMulSmall(a, Pow2(s % LimbBits))

RECURSIVE BigShrSmallFrom(_, _, _)
BigShrSmallFrom(a, r, k) ==
    IF k > Len(a) THEN << >>
    ELSE <<(a[k] \div Pow2(r)) + (Limb(a, k + 1) % Pow2(r)) * Pow2(LimbBits - r)>>
         \o BigShrSmallFrom(a, r, k + 1)

BigShr(a, s) ==
    LET w == s \div LimbBits
    IN  IF w >= Len(a) THEN << >>
        ELSE BigNorm(BigShrSmallFrom(SubSeq(a, w + 1, Len(a)), s % LimbBits, 1))

BigIsOdd(a) == Len(a) > 0 /\ a[1] % 2 = 1

\* a / 2^s rounded to the nearest integer, ties to even
BigShrNearestEven(a, s) ==
    IF s = 0 THEN a
    ELSE LET kept == BigShr(a, s)
             low == BigSub(a, BigShl(kept, s))
             c == BigCmp(low, BigShl(<<1>>, s - 1))
         IN  IF c > 0 \/ (c = 0 /\ BigIsOdd(kept)) THEN BigAdd(kept, <<1>>) ELSE kept

\* a float is m * 2^e with m of exactly MantBits bits, or zero, or NaN; the
\* program's floats are never negative, infinite or subnormal
Num(m, e) == [k |-> "num", m |-> m, e |-> e]
FZero == Num(<< >>, 0)
NaN == [k |-> "nan", m |-> << >>, e |-> 0]
IsZero(x) == x.k = "num" /\ Len(x.m) = 0

\* the float nearest to (q + f) * 2^e, ties to even; 0 <= f < 1 and f # 0 iff sticky
RoundNearestEven(q, sticky, e) ==
    LET n == BigBitLen(q)
    IN  IF n = 0 THEN FZero
        ELSE IF n <= MantBits THEN Num(BigShl(q, MantBits - n), e - (MantBits - n))
        ELSE LET t == n - MantBits
                 kept == BigShr(q, t)
                 low == BigSub(q, BigShl(kept, t))
                 c == BigCmp(low, BigShl(<<1>>, t - 1))
                 up == c > 0 \/ (c = 0 /\ (sticky \/ BigIsOdd(kept)))
                 m1 == IF up THEN BigAdd(kept, <<1>>) ELSE kept
             IN  IF BigBitLen(m1) > MantBits THEN Num(BigShr(m1, 1), e + t + 1)
                                            ELSE Num(m1, e + t)

\* the largest q in lo..hi with q * d <= r
RECURSIVE QuotDigit(_, _, _, _)
QuotDigit(r, d, lo, hi) ==
    IF lo = hi THEN lo
    ELSE LET mid == (lo + hi + 1) \div 2
         IN  IF BigCmp(BigMulSmall(d, mid), r) <= 0 THEN QuotDigit(r, d, mid, hi)
                                                   ELSE QuotDigit(r, d, lo, mid - 1)

\* long division of r by d (r < 2d) to n limbs:
\* <<floor(r * Base^(n-1) / d), whether a remainder is left>>
RECURSIVE QuotLimbs(_, _, _)
QuotLimbs(r, d, n) ==
    IF n = 0 THEN << << >>, Len(r) > 0 >>
    ELSE LET q == QuotDigit(r, d, 0, Base - 1)
             rem == BigSub(r, BigMulSmall(d, q))
             rest == QuotLimbs(IF Len(rem) = 0 THEN rem ELSE <<0>> \o rem, d, n - 1)
         IN  << rest[1] \o <<q>>, rest[2] >>

\* the float nearest to (n / d) * 2^e, for d # 0
DivRound(n, d, e) ==
    IF Len(n) = 0 THEN FZero
    ELSE LET ln == BigBitLen(n)
             ld == BigBitLen(d)
             n1 == IF ln < ld THEN BigShl(n, ld - ln) ELSE n
             d1 == IF ld < ln THEN BigShl(d, ln - ld) ELSE d
             qs == QuotLimbs(n1, d1, GuardLimbs + 1)
         IN  RoundNearestEven(BigNorm(qs[1]), qs[2], e + (ln - ld) - GuardLimbs * LimbBits)

\* the float a decimal literal n/d denotes
FromRatio(n, d) == DivRound(BigOfInt(n), BigOfInt(d), 0)

\* a / b, for b # 0
FDiv(a, b) == IF a.k = "nan" \/ b.k = "nan" THEN NaN ELSE DivRound(a.m, b.m, a.e - b.e)

\* a * n, for an integer 0 <= n < Base
FMulInt(a, n) == IF a.k = "nan" THEN NaN ELSE RoundNearestEven(BigMulSmall(a.m, n), FALSE, a.e)

FCmp(a, b) ==
    IF IsZero(a) THEN (IF IsZero(b) THEN 0 ELSE -1)
    ELSE IF IsZero(b) THEN 1
    ELSE IF a.e > b.e THEN 1
    ELSE IF a.e < b.e THEN -1
    ELSE BigCmp(a.m, b.m)

\* a >= b and a <= b; every comparison with NaN is false
FGe(a, b) == a.k = "num" /\ b.k = "num" /\ FCmp(a, b) >= 0
FLe(a, b) == a.k = "num" /\ b.k = "num" /\ FCmp(a, b) <= 0

\* the integer nearest to x, ties to even, as a natural
RintBig(x) == IF x.e >= 0 THEN BigShl(x.m, x.e) ELSE BigShrNearestEven(x.m, 0 - x.e)

\* round(x, 2) of a Python float: the float nearest to the decimal that is the
\* exact value of x rounded half-even to two places
PyRound2(x) ==
    IF x.k = "nan" \/ IsZero(x) THEN x
    ELSE LET h == BigMulSmall(x.m, 100)
             n == IF x.e >= 0 THEN BigShl(h, x.e) ELSE BigShrNearestEven(h, 0 - x.e)
         IN  DivRound(n, BigOfInt(100), 0)

\* round(x, 2) of a numpy.float64: rint(x * 100) / 100, each step rounded
NpRound2(x) ==
    IF x.k = "nan" \/ IsZero(x) THEN x
    ELSE DivRound(RintBig(FMulInt(x, 100)), BigOfInt(100), 0)

\* --------------------------------------------------------- program constants
\* "if i % 50 == 0": the pacing period
PaceEvery == 50
\* "report_year < current_year - 2": the recency window
RecentYears == 2
\* datetime.now().year
CurrentYear == 2026
\* "/ 10.0": the distribution ratio is per ten shares
PerShares == FromRatio(10, 1)
\* "* 100": the yield is a percentage
Percent == 100
\* ">= 3.0": the yield threshold
MinYield == FromRatio(3, 1)

\* ------------------------------------------------ the provider's universe
\* stock codes are strings of digits
CodeSH == <<6, 0, 0, 0, 0, 1>>
CodeSZ == <<0, 0, 0, 0, 0, 2>>
CodeBJ == <<8, 3, 0, 0, 0, 3>>
CodeCY == <<3, 0, 0, 0, 0, 4>>

Listed ==
    { [code |-> CodeSH, name |-> "sh"],
      [code |-> CodeSZ, name |-> "sz"],
      [code |-> CodeBJ, name |-> "bj"],
      [code |-> CodeCY, name |-> "cy"] }

Range(s) == { s[k] : k \in DOMAIN s }
Distinct(s) == \A a, b \in DOMAIN s : a # b => s[a] # s[b]

\* tables of at most n distinct identifiers
Listings(n) ==
    UNION { { s \in [1..len -> Listed] : Distinct(s) } : len \in 0..n }

\* report dates, as <<year, month, day>>
\* the last day outside the recency window, the first day inside it, and a
\* day of the current year
OldDate == <<CurrentYear - RecentYears - 1, 12, 31>>
EdgeDate == <<CurrentYear - RecentYears, 1, 1>>
NowDate == <<CurrentYear, 6, 30>>
RecordDay == <<CurrentYear - 1, 6, 1>>
ExDay == <<CurrentYear - 1, 6, 2>>

Ratio33 == FromRatio(33, 10)
Ratio50 == FromRatio(5, 1)
Price10 == FromRatio(10, 1)
Price11 == FromRatio(11, 1)
Price20 == FromRatio(20, 1)
RatioVals == {Ratio33, Ratio50}
\* a snapshot's prices: 0 and NaN are what a suspended stock is quoted at
PriceVals == {FZero, Price10, Price11, Price20, NaN}

DivRecord(type, ratio, report) ==
    [type |-> type, ratio |-> ratio, report |-> report,
     record_date |-> RecordDay, ex_date |-> ExDay]

\* the dividend records a provider may hold: cash distributions of either
\* ratio on the window's first day, one before it, one this year, and a
\* bonus-share issue of this year
DividendRecords ==
    { DivRecord("cash", Ratio33, EdgeDate),
      DivRecord("cash", Ratio50, EdgeDate),
      DivRecord("cash", Ratio50, OldDate),
      DivRecord("cash", Ratio33, NowDate),
      DivRecord("bonus", Ratio50, NowDate) }

Frame(rows) == [kind |-> "frame", rows |-> rows]
\* a non-empty frame that lacks the expected columns
Malformed == [kind |-> "malformed", rows |-> <<DivRecord("bonus", Ratio50, NowDate)>>]
\* the provider call raises KeyError, or any other Exception
RaisesKeyError == [kind |-> "KeyError", rows |-> << >>]
RaisesException == [kind |-> "Exception", rows |-> << >>]
NoResponse == [kind |-> "none", rows |-> << >>]

Frames(n) == { Frame(rows) : rows \in UNION { [1..len -> DividendRecords] : len \in 0..n } }

AllResponses == Frames(MaxRecs) \cup {Malformed, RaisesKeyError, RaisesException}

QualifyingFrame == Frame(<<DivRecord("cash", Ratio50, NowDate)>>)
FewResponses == {Frame(<< >>), QualifyingFrame, RaisesKeyError, RaisesException}

\* what a provider of each class may answer to a dividend request
Responses(class) ==
    CASE class = "any" -> AllResponses
      [] class = "few" -> FewResponses
      [] class = "data" -> FewResponses \cup {Malformed}
      [] class = "probe" -> {Frame(<< >>), QualifyingFrame, RaisesException}
      [] class = "down" -> {RaisesException}

\* ------------------------------------------------------------------- state
VARIABLES
    listed,             \* provider: the identifier table
    quotes,             \* provider: code -> latest price
    dividends,          \* provider: code -> the class of responses it may give
    pc,                 \* position of the program
    raised,             \* the uncaught exception that ended the run, if any
    allStockCodes, index, all_dividend_data, no_dividend_stocks, error_stocks,
    success_count,      \* locals of getStockDividendData
    dividend_book,      \* the workbook getStockDividendData writes
    fetched,            \* history: what each fetch of getStockDividendData gave
    stock_list, price_map, i, div_df, results, result_df,
                        \* locals of getHighDividend
    high_book,          \* the workbook getHighDividend writes
    sleeps,             \* history: the index after which each time.sleep(1) ran
    outcomes            \* history: how each iteration of getHighDividend ended

env == <<listed, quotes, dividends>>
dataVars == <<allStockCodes, index, all_dividend_data, no_dividend_stocks,
              error_stocks, success_count, dividend_book, fetched>>
screenVars == <<stock_list, price_map, i, div_df, results, result_df,
                high_book, sleeps, outcomes>>
vars == <<env, pc, raised, dataVars, screenVars>>

NoBook == [written |-> FALSE, data |-> << >>, none |-> << >>, errors |-> << >>]
NoQuotes == [c \in {} |-> FZero]
NoException == [exc |-> "", call |-> "", in |-> ""]
Uncaught(exc, call, fn) == [exc |-> exc, call |-> call, in |-> fn]

\* ---------------------------------------------------------- getAllStockCodes
\* str.match(r'^(60|68|00|30)\d{4}$')
MatchesMainBoards(code) ==
    /\ Len(code) = 6
    /\ <<code[1], code[2]>> \in {<<6, 0>>, <<6, 8>>, <<0, 0>>, <<3, 0>>}
    /\ \A k \in 3..6 : code[k] \in 0..9

\* the table, filtered to the Shanghai and Shenzhen boards and re-indexed from 0
\* unless containBJ
getAllStockCodes(df, containBJ) ==
    IF containBJ THEN df ELSE SelectSeq(df, LAMBDA row : MatchesMainBoards(row.code))

\* ------------------------------------------------------ getStockDividendData
StockNote(row, note) == [code |-> row.code, name |-> row.name, note |-> note]

\* a test that also takes a single record for none
AtMostOneRecord(df) == Len(df.rows) <= 1

\* "len(df) == 0"
NoDividends(df) == Len(df.rows) = 0

\* handlers that record one note for every exception, and that lack the
\* second except clause
OneNoteHandler(exc) == IF exc \in {"KeyError", "Exception"} THEN "fetch" ELSE "uncaught"
KeyErrorHandler(exc) == IF exc = "KeyError" THEN "format" ELSE "uncaught"

\* the except clause that catches an exception of this kind, by the note it
\* records; "uncaught" when no clause does
DataHandler(exc) ==
    IF exc = "KeyError" THEN "format"
    ELSE IF exc = "Exception" THEN "fetch"
    ELSE "uncaught"

ListForDividendData ==
    /\ pc = "gsd_list"
    /\ \/ /\ allStockCodes' = getAllStockCodes(listed, TRUE)
          /\ pc' = "gsd_loop"
          /\ UNCHANGED raised
       \/ /\ raised' = Uncaught("Exception", "stock_info_a_code_name", "getStockDividendData")
          /\ pc' = "aborted"
          /\ UNCHANGED allStockCodes
    /\ UNCHANGED <<env, index, all_dividend_data, no_dividend_stocks, error_stocks,
                   success_count, dividend_book, fetched, screenVars>>

\* one iteration of the loop over allStockCodes
CollectStock ==
    /\ pc = "gsd_loop"
    /\ index < Len(allStockCodes)
    /\ LET row == allStockCodes[index + 1]
       IN  \E df \in Responses(dividends[row.code]) :
             LET threw == df.kind \in {"KeyError", "Exception"}
                 handler == IF threw THEN DataHandler(df.kind) ELSE ""
                 empty == ~threw /\ NoDividends(df)
                 full == ~threw /\ ~NoDividends(df)
             IN  /\ no_dividend_stocks' =
                        IF empty THEN Append(no_dividend_stocks, StockNote(row, "none"))
                                 ELSE no_dividend_stocks
                 /\ all_dividend_data' =
                        IF full THEN Append(all_dividend_data,
                                            [code |-> row.code, name |-> row.name, rows |-> df.rows])
                                ELSE all_dividend_data
                 /\ success_count' = IF full THEN success_count + 1 ELSE success_count
                 /\ error_stocks' =
                        IF threw /\ handler # "uncaught"
                        THEN Append(error_stocks, StockNote(row, handler))
                        ELSE error_stocks
                 /\ fetched' = Append(fetched, [kind |-> df.kind, records |-> Len(df.rows)])
                 /\ IF threw /\ handler = "uncaught"
                    THEN /\ pc' = "aborted"
                         /\ raised' = Uncaught(df.kind, "stock_dividend_cninfo", "getStockDividendData")
                         /\ UNCHANGED index
                    ELSE /\ pc' = "gsd_loop"
                         /\ index' = index + 1
                         /\ UNCHANGED raised
    /\ UNCHANGED <<env, allStockCodes, dividend_book, screenVars>>

\* the loop is over: one sheet per non-empty list, then the function returns
SaveDividendData ==
    /\ pc = "gsd_loop"
    /\ index = Len(allStockCodes)
    /\ dividend_book' = [written |-> TRUE, data |-> all_dividend_data,
                         none |-> no_dividend_stocks, errors |-> error_stocks]
    /\ allStockCodes' = << >>
    /\ index' = 0
    /\ all_dividend_data' = << >>
    /\ no_dividend_stocks' = << >>
    /\ error_stocks' = << >>
    /\ success_count' = 0
    /\ pc' = "gsd_done"
    /\ UNCHANGED <<env, raised, fetched, screenVars>>

\* ----------------------------------------------------------- getHighDividend
\* no filter: every distribution is kept
NoCashFilter(type) == type \in {"cash", "bonus"}

\* str.contains('现金', na=False)
ContainsCash(type) == type = "cash"

DateLess(a, b) ==
    \/ a[1] < b[1]
    \/ a[1] = b[1] /\ a[2] < b[2]
    \/ a[1] = b[1] /\ a[2] = b[2] /\ a[3] < b[3]

\* the other end of the sort: a record of the earliest report date
Earliest(cash) == { r \in Range(cash) : \A o \in Range(cash) : ~DateLess(o.report, r.report) }

\* sort_values('报告时间', ascending=False).iloc[0]: a record of the latest
\* report date; which one, when several share it, the sort does not say
Latest(cash) == { r \in Range(cash) : \A o \in Range(cash) : ~DateLess(r.report, o.report) }

\* "report_year < current_year - 2"
TooOld(report_year) == report_year < CurrentYear - RecentYears

\* "current_price is None or current_price <= 0"
NoUsablePrice(symbol, prices) ==
    \/ symbol \notin DOMAIN prices
    \/ FLe(prices[symbol], FZero)

\* a row whose yield is left unrounded
YieldOfUnrounded(ratio, current_price) ==
    LET dividend_per_share == FDiv(ratio, PerShares)
        dividend_yield == FMulInt(FDiv(dividend_per_share, current_price), Percent)
    IN  [dividend_per_share |-> dividend_per_share,
         dividend_yield |-> dividend_yield,
         price2 |-> PyRound2(current_price),
         dps2 |-> NpRound2(dividend_per_share),
         yield2 |-> dividend_yield]

\* the per-share dividend, the yield and the three rounded values of a row
YieldOf(ratio, current_price) ==
    LET dividend_per_share == FDiv(ratio, PerShares)
        dividend_yield == FMulInt(FDiv(dividend_per_share, current_price), Percent)
    IN  [dividend_per_share |-> dividend_per_share,
         dividend_yield |-> dividend_yield,
         price2 |-> PyRound2(current_price),
         dps2 |-> NpRound2(dividend_per_share),
         yield2 |-> NpRound2(dividend_yield)]

\* YieldOf, computed once for every ratio and positive price of the universe
YieldTable == [ratio \in RatioVals, price \in PriceVals \ {FZero} |-> YieldOf(ratio, price)]

\* "dividend_yield >= 3.0"
MeetsYield(dividend_yield) == FGe(dividend_yield, MinYield)

NoRow ==
    [code |-> << >>, name |-> "", price |-> FZero, dps |-> FZero, ratio |-> FZero,
     yield |-> FZero, year |-> 0, record_date |-> <<0, 0, 0>>, ex_date |-> <<0, 0, 0>>]

\* the dict appended to results
ResultRow(symbol, name, latest, y) ==
    [code |-> symbol, name |-> name, price |-> y.price2, dps |-> y.dps2,
     ratio |-> latest.ratio, yield |-> y.yield2, year |-> latest.report[1],
     record_date |-> latest.record_date, ex_date |-> latest.ex_date]

\* how the body of the try statement ends
Continues == [kind |-> "continue", exc |-> "", row |-> NoRow]
Rejects == [kind |-> "reject", exc |-> "", row |-> NoRow]
Raises(exc) == [kind |-> "error", exc |-> exc, row |-> NoRow]
Emits(row) == [kind |-> "emit", exc |-> "", row |-> row]

\* from the recency test to the append
ScreenLatest(symbol, name, latest, prices) ==
    IF TooOld(latest.report[1]) THEN Continues
    ELSE IF NoUsablePrice(symbol, prices) THEN Continues
    ELSE LET y == YieldTable[latest.ratio, prices[symbol]]
         IN  IF MeetsYield(y.dividend_yield)
             THEN Emits(ResultRow(symbol, name, latest, y))
             ELSE Rejects

\* the body of the try statement, given what the provider call produced
ScreenOutcomes(symbol, name, df, prices) ==
    IF df.kind \in {"KeyError", "Exception"} THEN {Raises(df.kind)}
    ELSE IF Len(df.rows) = 0 THEN {Continues}
    ELSE IF df.kind = "malformed" THEN {Raises("KeyError")}
    ELSE LET cash == SelectSeq(df.rows, LAMBDA r : ContainsCash(r.type))
         IN  IF Len(cash) = 0 THEN {Continues}
             ELSE { ScreenLatest(symbol, name, latest, prices) : latest \in Latest(cash) }

\* "except KeyError" in its place
CatchesKeyErrorOnly(exc) == exc = "KeyError"

\* "except Exception": what the handler of the try statement catches
ScreenCatches(exc) == exc \in {"KeyError", "Exception"}

\* the pacing block: skipped by continue, entered when i % 50 == 0
Sleeps(kind, label) == kind # "continue" /\ label % PaceEvery = 0

ListForHighDividend ==
    /\ pc = "ghd_list"
    /\ \/ /\ stock_list' = getAllStockCodes(listed, FALSE)
          /\ pc' = "ghd_price"
          /\ UNCHANGED raised
       \/ /\ raised' = Uncaught("Exception", "stock_info_a_code_name", "getHighDividend")
          /\ pc' = "aborted"
          /\ UNCHANGED stock_list
    /\ UNCHANGED <<env, dataVars, price_map, i, div_df, results, result_df,
                   high_book, sleeps, outcomes>>

getNewStockPrice ==
    /\ pc = "ghd_price"
    /\ \/ /\ price_map' = quotes
          /\ pc' = "ghd_loop"
          /\ UNCHANGED raised
       \/ /\ raised' = Uncaught("Exception", "stock_zh_a_spot_em", "getHighDividend")
          /\ pc' = "aborted"
          /\ UNCHANGED price_map
    /\ UNCHANGED <<env, dataVars, stock_list, i, div_df, results, result_df,
                   high_book, sleeps, outcomes>>

\* the provider call that opens an iteration
FetchStockDividend ==
    /\ pc = "ghd_loop"
    /\ i < Len(stock_list)
    /\ div_df' \in Responses(dividends[stock_list[i + 1].code])
    /\ pc' = "ghd_try"
    /\ UNCHANGED <<env, raised, dataVars, stock_list, price_map, i, results,
                   result_df, high_book, sleeps, outcomes>>

\* the rest of the iteration
ScreenStock ==
    /\ pc = "ghd_try"
    /\ LET row == stock_list[i + 1]
       IN  \E out \in ScreenOutcomes(row.code, row.name, div_df, price_map) :
             /\ results' = IF out.kind = "emit" THEN Append(results, out.row) ELSE results
             /\ outcomes' = Append(outcomes, out.kind)
             /\ IF out.kind = "error" /\ ~ScreenCatches(out.exc)
                THEN /\ pc' = "aborted"
                     /\ raised' = Uncaught(out.exc, "stock_dividend_cninfo", "getHighDividend")
                     /\ UNCHANGED <<i, sleeps>>
                ELSE /\ pc' = "ghd_loop"
                     /\ i' = i + 1
                     /\ sleeps' = IF Sleeps(out.kind, i) THEN Append(sleeps, i) ELSE sleeps
                     /\ UNCHANGED raised
    /\ div_df' = NoResponse
    /\ UNCHANGED <<env, dataVars, stock_list, price_map, result_df, high_book>>

Orderings(n) == { p \in [1..n -> 1..n] : \A a, b \in 1..n : a # b => p[a] # p[b] }

\* the order of ascending=True
Ascending(first, second) == FLe(first, second)

\* the order sort_values(ascending=False) leaves two yields in
InOrder(first, second) == FGe(first, second)

\* sort_values('股息率(%)', ascending=False): the default kind is quicksort,
\* which is not stable, so rows of equal yield come out in any order
SortValues(rows) ==
    { [k \in 1..Len(rows) |-> rows[p[k]]] :
        p \in { q \in Orderings(Len(rows)) :
                  \A a, b \in 1..Len(rows) :
                      a < b => InOrder(rows[q[a]].yield, rows[q[b]].yield) } }

\* the loop is over: the sorted frame is written unless it is empty
ExportHighDividend ==
    /\ pc = "ghd_loop"
    /\ i = Len(stock_list)
    /\ result_df' \in SortValues(results)
    /\ high_book' = IF Len(results) = 0 THEN high_book
                    ELSE [written |-> TRUE, rows |-> result_df']
    /\ pc' = "ghd_done"
    /\ UNCHANGED <<env, raised, dataVars, stock_list, price_map, i, div_df,
                   results, sleeps, outcomes>>

\* ------------------------------------------------------------------ __main__
\* getStockDividendData() has returned: getHighDividend() is called
CallHighDividend ==
    /\ pc = "gsd_done"
    /\ pc' = "ghd_list"
    /\ UNCHANGED <<env, raised, dataVars, screenVars>>

\* ------------------------------------------------------------ specifications
Codes(table) == { table[k].code : k \in DOMAIN table }

Start(entry) ==
    /\ pc = entry
    /\ raised = NoException
    /\ allStockCodes = << >>
    /\ index = 0
    /\ all_dividend_data = << >>
    /\ no_dividend_stocks = << >>
    /\ error_stocks = << >>
    /\ success_count = 0
    /\ dividend_book = NoBook
    /\ fetched = << >>
    /\ stock_list = << >>
    /\ price_map = NoQuotes
    /\ i = 0
    /\ div_df = NoResponse
    /\ results = << >>
    /\ result_df = << >>
    /\ high_book = [written |-> FALSE, rows |-> << >>]
    /\ sleeps = << >>
    /\ outcomes = << >>

\* a snapshot quotes any of the screened stocks, at any price
Snapshots(table) ==
    UNION { [S -> PriceVals] : S \in SUBSET Codes(getAllStockCodes(table, FALSE)) }

\* getHighDividend() on any table, any snapshot and any dividend histories
Init ==
    /\ listed \in Listings(MaxStocks)
    /\ quotes \in Snapshots(listed)
    /\ dividends = [c \in Codes(listed) |-> "any"]
    /\ Start("ghd_list")

NextScreen ==
    \/ ListForHighDividend
    \/ getNewStockPrice
    \/ FetchStockDividend
    \/ ScreenStock
    \/ ExportHighDividend

Spec == Init /\ [][NextScreen]_vars

\* getHighDividend() on a table longer than the pacing period; the first stock
\* and those around the period's end answer in any way, the others raise
PaceCode(k) == <<6, 0, 0, 0, k \div 10, k % 10>>
PaceTable(n) == [k \in 1..n |-> [code |-> PaceCode(k), name |-> "p"]]
PaceProbes == {1, PaceEvery, PaceEvery + 1}

InitPace ==
    /\ \E n \in (PaceEvery + 1)..(PaceEvery + PaceExtra) : listed = PaceTable(n)
    /\ quotes = [c \in Codes(listed) |-> Price10]
    /\ dividends = [c \in Codes(listed) |->
                       IF \E k \in PaceProbes : c = PaceCode(k)
                       THEN "probe" ELSE "down"]
    /\ Start("ghd_list")

SpecPace == InitPace /\ [][NextScreen]_vars

\* getStockDividendData() on any table
InitData ==
    /\ listed \in Listings(MaxListed)
    /\ quotes = NoQuotes
    /\ dividends = [c \in Codes(listed) |-> "data"]
    /\ Start("gsd_list")

NextData ==
    \/ ListForDividendData
    \/ CollectStock
    \/ SaveDividendData

SpecData == InitData /\ [][NextData]_vars

\* the program: getStockDividendData(), then getHighDividend()
InitMain ==
    /\ listed \in Listings(MaxStocks)
    /\ quotes = [c \in Codes(listed) |-> Price10]
    /\ dividends = [c \in Codes(listed) |-> "few"]
    /\ Start("gsd_list")

Next ==
    \/ NextData
    \/ CallHighDividend
    \/ NextScreen

SpecMain == InitMain /\ [][Next]_vars

\* ---------------------------------------------------------------- properties
\* the cash distributions of a frame, told by the records themselves, and those
\* of them that no other one is later than
CashRecords(df) == { r \in Range(df.rows) : r.type = "cash" }
NewestCash(df) ==
    { r \in CashRecords(df) : \A o \in CashRecords(df) : ~DateLess(r.report, o.report) }

\* the step appends a row to results
RowAdded == Len(results') = Len(results) + 1
AddedRow == results'[Len(results')]

\* a figure of at most two decimals, in hundredths
Cents(x) ==
    LET b == RintBig(FMulInt(x, 100))
    IN  IF Len(b) = 0 THEN 0 ELSE IF Len(b) = 1 THEN b[1] ELSE b[1] + Base * b[2]

HasPositivePrice(code) ==
    /\ code \in DOMAIN price_map
    /\ price_map[code].k = "num"
    /\ ~IsZero(price_map[code])

\* C1: an iteration whose dividend frame holds no cash-dividend record, be it
\* empty or made of other distributions only, leaves results as it was, and no
\* row of results carries that stock's code
C1_NoCashRecordNoRow ==
    [][ (pc = "ghd_try" /\ div_df.kind = "frame" /\ CashRecords(div_df) = {})
            => /\ results' = results
               /\ \A k \in DOMAIN results' : results'[k].code # stock_list[i + 1].code ]_vars

\* the stock has a price that would qualify it, earlier rows exist, and its
\* frame holds a bonus issue only
C1_Witness ==
    /\ pc = "ghd_try"
    /\ div_df.kind = "frame"
    /\ Len(div_df.rows) > 0
    /\ CashRecords(div_df) = {}
    /\ HasPositivePrice(stock_list[i + 1].code)
    /\ price_map[stock_list[i + 1].code] = Price10
    /\ Len(results) > 0

\* C2: a row added to results shows the ratio and the report year of a cash
\* record that no other cash record of the frame is later than, and that year
\* is at most two years before the current one
C2_LatestRecordWithinTwoYears ==
    [][ (pc = "ghd_try" /\ RowAdded)
            => \E r \in NewestCash(div_df) :
                  /\ AddedRow.ratio = r.ratio
                  /\ AddedRow.year = r.report[1]
                  /\ CurrentYear - r.report[1] <= RecentYears ]_vars

\* a row of a report year exactly two years back has been added, and the frame
\* now screened holds an earlier cash record of another ratio besides its
\* latest one
C2_Witness ==
    /\ pc = "ghd_try"
    /\ \E k \in DOMAIN results : CurrentYear - results[k].year = RecentYears
    /\ \E a, b \in CashRecords(div_df) :
          /\ DateLess(a.report, b.report)
          /\ a.ratio # b.ratio
          /\ b \in NewestCash(div_df)
    /\ HasPositivePrice(stock_list[i + 1].code)
    /\ price_map[stock_list[i + 1].code] = Price10

\* C3: a stock whose latest cash records pass the recency test gets a row if
\* and only if the price map has a price for it, the price is positive, and
\* 10 * ratio >= 3 * price, on the figures as the provider states them
C3_RowIffYieldAtLeastThree ==
    [][ (/\ pc = "ghd_try"
         /\ div_df.kind = "frame"
         /\ NewestCash(div_df) # {}
         /\ \A r \in NewestCash(div_df) : CurrentYear - r.report[1] <= RecentYears)
            => LET code == stock_list[i + 1].code
                   Qualifies(r) ==
                       /\ HasPositivePrice(code)
                       /\ 10 * Cents(r.ratio) >= 3 * Cents(price_map[code])
               IN  /\ RowAdded => \E r \in NewestCash(div_df) : Qualifies(r)
                   /\ (\A r \in NewestCash(div_df) : Qualifies(r)) => RowAdded ]_vars

\* C4: an iteration whose provider call raises, or whose frame lacks a column,
\* adds no row, leaves the earlier rows alone and moves to the next
\* identifier; the loop never ends the run, and it is left only when every
\* identifier has been processed
C4_ErrorSkipsOneStock ==
    [][ /\ (pc = "ghd_try" /\ div_df.kind \in {"KeyError", "Exception", "malformed"})
            => /\ results' = results
               /\ pc' = "ghd_loop"
               /\ i' = i + 1
               /\ stock_list' = stock_list
               /\ raised' = NoException
        /\ (pc \in {"ghd_loop", "ghd_try"}) => pc' # "aborted"
        /\ (pc' = "ghd_done") => Len(outcomes') = Len(stock_list') ]_vars

\* the run is over, the first identifier raised and the second one got a row
C4_Witness ==
    /\ pc = "ghd_done"
    /\ Len(outcomes) >= 2
    /\ outcomes[1] = "error"
    /\ outcomes[2] = "emit"
    /\ Len(result_df) = 1

\* rows a and b of the final frame, a before b, are in descending order
Descending(rows) ==
    \A a, b \in DOMAIN rows : a < b => FCmp(rows[a].yield, rows[b].yield) >= 0

PositionIn(rows, code) == CHOOSE k \in DOMAIN rows : rows[k].code = code

\* C5 as stated: the final frame is in descending order of yield, and rows of
\* equal yield keep the order they were collected in
C5_SortedWithStableTies ==
    pc = "ghd_done" =>
        /\ Descending(result_df)
        /\ \A a, b \in DOMAIN result_df :
              (a < b /\ FCmp(result_df[a].yield, result_df[b].yield) = 0)
                  => PositionIn(results, result_df[a].code) < PositionIn(results, result_df[b].code)

\* C5: the final frame holds the collected rows, each once, in descending order
\* of yield
C5_SortedDescending ==
    pc = "ghd_done" =>
        /\ Descending(result_df)
        /\ Len(result_df) = Len(results)
        /\ Range(result_df) = Range(results)

\* two rows of different yields were collected in ascending order
C5_Witness ==
    /\ pc = "ghd_done"
    /\ Len(results) = 2
    /\ FCmp(results[1].yield, results[2].yield) < 0
    /\ result_df = <<results[2], results[1]>>

\* C6 as stated: in every row, on the figures shown, the per-share dividend is
\* a tenth of the ratio and the yield is the per-share dividend over the price,
\* times 100
C6_IdentitiesOnShownFigures ==
    \A k \in DOMAIN results :
        /\ 10 * Cents(results[k].dps) = Cents(results[k].ratio)
        /\ Cents(results[k].yield) * Cents(results[k].price)
              = 100 * 100 * Cents(results[k].dps)

\* the figures of a row, from the ratio and the price: the per-share dividend
\* and the yield are computed unrounded, and each is then rounded
ShownFigures ==
    [ratio \in RatioVals, price \in PriceVals \ {FZero, NaN} |->
        LET dps == FDiv(ratio, FromRatio(10, 1))
            yield == FMulInt(FDiv(dps, price), 100)
        IN  [price |-> PyRound2(price), dps |-> NpRound2(dps), yield |-> NpRound2(yield)]]

\* C6: a row added to results shows the ratio of a cash record as it is, the
\* price rounded to two decimals, and the per-share dividend ratio / 10 and the
\* yield (ratio / 10) / price * 100, each computed on the unrounded figures and
\* then rounded to two decimals
C6_RoundedFromUnrounded ==
    [][ (pc = "ghd_try" /\ RowAdded)
            => /\ HasPositivePrice(AddedRow.code)
               /\ \E r \in CashRecords(div_df) :
                     LET shown == ShownFigures[r.ratio, price_map[AddedRow.code]]
                     IN  /\ AddedRow.ratio = r.ratio
                         /\ AddedRow.price = shown.price
                         /\ AddedRow.dps = shown.dps
                         /\ AddedRow.yield = shown.yield ]_vars

\* a row of ratio 5 at price 11: its yield 4.5454... is shown as 4.55
C6_Witness ==
    \E k \in DOMAIN results :
        /\ results[k].ratio = Ratio50
        /\ results[k].price = Price11
        /\ Cents(results[k].yield) = 455

\* C7: between two iterations, the pauses taken so far are those after the
\* 50th, the 100th, ... identifier, one each
C7_PauseAfterEveryFiftieth ==
    pc = "ghd_loop" => sleeps = [k \in 1..(i \div PaceEvery) |-> k * PaceEvery - 1]

\* the errors getStockDividendData collected
DataErrors == IF dividend_book.written THEN dividend_book.errors ELSE error_stocks
DataRaised == { k \in DOMAIN fetched : fetched[k].kind \in {"KeyError", "Exception"} }
ScreenRaised == { k \in DOMAIN outcomes : outcomes[k] = "error" }
RecordedWithKind ==
    \A k \in DataRaised :
        \E e \in Range(DataErrors) :
            /\ e.code = listed[k].code
            /\ e.note = IF fetched[k].kind = "KeyError" THEN "format" ELSE "fetch"

\* C8 as stated: every error of either loop is recorded in the errors
\* collection with its kind
C8_EveryErrorRecorded ==
    /\ RecordedWithKind
    /\ Len(DataErrors) = Cardinality(DataRaised) + Cardinality(ScreenRaised)

\* C8: every error of getStockDividendData's loop is recorded in the errors
\* collection with its kind and the loop goes on to the last stock; an error of
\* getHighDividend's loop is recorded nowhere, and that loop too goes on to the
\* last stock
C8_DataErrorsRecordedScreenErrorsDropped ==
    /\ RecordedWithKind
    /\ Len(DataErrors) = Cardinality(DataRaised)
    /\ raised.call # "stock_dividend_cninfo"
    /\ dividend_book.written => Len(fetched) = Len(listed)
    /\ pc = "ghd_done" => Len(outcomes) = Len(stock_list)

\* both loops are over; the first met an error of each kind, the second an
\* error too
C8_Witness ==
    /\ pc = "ghd_done"
    /\ \E a, b \in DataRaised : fetched[a].kind = "KeyError" /\ fetched[b].kind = "Exception"
    /\ ScreenRaised # {}

\* C9 as stated: the run ends early only when the listing of identifiers
\* fails, and then no stock has been processed
C9_OnlyListingAborts ==
    pc = "aborted" =>
        /\ raised.call = "stock_info_a_code_name"
        /\ fetched = << >>
        /\ outcomes = << >>

\* C9: the run ends early only when a listing of identifiers or the price
\* snapshot fails; in getStockDividendData that is before any stock is
\* processed, in getHighDividend it is after getStockDividendData has processed
\* every stock and before getHighDividend processes any
C9_ListingOrSnapshotAborts ==
    pc = "aborted" =>
        /\ raised.call \in {"stock_info_a_code_name", "stock_zh_a_spot_em"}
        /\ raised.in = "getStockDividendData"
              => (raised.call = "stock_info_a_code_name" /\ fetched = << >>)
        /\ raised.in = "getHighDividend"
              => (dividend_book.written /\ Len(fetched) = Len(listed) /\ outcomes = << >>)

\* the snapshot failed after getStockDividendData had processed stocks
C9_Witness ==
    /\ pc = "aborted"
    /\ raised.call = "stock_zh_a_spot_em"
    /\ Len(fetched) > 0

InList(list, code) == \E j \in DOMAIN list : list[j].code = code

\* C10: when the loop of getStockDividendData is over, each identifier is in
\* exactly one list: the data of those whose fetch gave at least one record,
\* the no-dividend list of those whose fetch gave none, the error list of those
\* whose fetch raised; the three lengths add up to the number of identifiers
\* and success_count is the length of the data list
C10_ThreeWayPartition ==
    (pc = "gsd_loop" /\ index = Len(allStockCodes)) =>
        /\ Len(fetched) = Len(allStockCodes)
        /\ \A k \in DOMAIN allStockCodes :
              LET code == allStockCodes[k].code
                  threw == fetched[k].kind \in {"KeyError", "Exception"}
              IN  /\ InList(all_dividend_data, code) <=> (~threw /\ fetched[k].records >= 1)
                  /\ InList(no_dividend_stocks, code) <=> (~threw /\ fetched[k].records = 0)
                  /\ InList(error_stocks, code) <=> threw
        /\ Len(all_dividend_data) + Len(no_dividend_stocks) + Len(error_stocks)
              = Len(allStockCodes)
        /\ success_count = Len(all_dividend_data)

\* the loop is over and none of the three lists is empty
C10_Witness ==
    /\ pc = "gsd_loop"
    /\ index = Len(allStockCodes)
    /\ index > 0
    /\ all_dividend_data # << >>
    /\ no_dividend_stocks # << >>
    /\ error_stocks # << >>
====
